---- MODULE Spec2Model ----
(***************************************************************************)
(* Model of the expression calculator of src/Calculator.py                  *)
(* (class HoldenRowlandCalculator): the read / normalise / validate /       *)
(* evaluate loop of main(), with the bracket resolver                       *)
(* evaluate_expression and the flat reducer calculate taken step by step.   *)
(*                                                                          *)
(* A Python str is a sequence of one-character strings.  Positions are      *)
(* 0-based as in the source; PyAt, PySlice, Find, RFind and Replace give    *)
(* the str operations their Python meaning (negative indices, clamped       *)
(* slices, non-overlapping replace-all).                                    *)
(*                                                                          *)
(* A Python float is modelled exactly where it is a multiple of 1/Scale     *)
(* (Scale = 2^FracBits) of magnitude at most MaxAbs: such floats are exact  *)
(* in binary and print as their exact decimal text.  Any other value is     *)
(* "unmodelled" and ends the run of that input in pc = "unmodelled".        *)
(***************************************************************************)
EXTENDS Integers, Sequences, FiniteSets, TLC

(***************************************************************************)
(* Bounds of the model.                                                     *)
(***************************************************************************)
MaxLen == 4
ShortLen == 2
MaxOperators == 3
FracBits == 1
MaxAbs == 2000
RecursionLimit == 4

Scale == 2 ^ FracBits

(***************************************************************************)
(* Character classes.                                                       *)
(***************************************************************************)
Digits == {"0", "1", "2", "3", "4", "5", "6", "7", "8", "9"}
\* self._OPERATORS, the instance attribute set by __init__ (line 794) that
\* the methods read
VARIABLE _OPERATORS
OPERATORS == _OPERATORS
Openers == {"(", "[", "{"}
Closers == {")", "]", "}"}
valid == Digits \cup {".", "(", ")", "+", "-", "*", "/", "[", "]", "{", "}", "^", "%"}
Whitespace == {" "}

Min(a, b) == IF a < b THEN a ELSE b
Max(a, b) == IF a > b THEN a ELSE b
Abs(a) == IF a < 0 THEN -a ELSE a

(***************************************************************************)
(* Python str primitives.                                                   *)
(***************************************************************************)
InRange(s, i) == -Len(s) <= i /\ i < Len(s)
PyAt(s, i) == IF i < 0 THEN s[Len(s) + i + 1] ELSE s[i + 1]
PyBound(s, i) == IF i < 0 THEN Max(0, Len(s) + i) ELSE Min(i, Len(s))
PySlice(s, a, b) == IF PyBound(s, a) < PyBound(s, b) THEN SubSeq(s, PyBound(s, a) + 1, PyBound(s, b)) ELSE << >>
From(s, a) == PySlice(s, a, Len(s))
Upto(s, b) == PySlice(s, 0, b)
IsAt(s, pat, i) == i + Len(pat) <= Len(s) /\ SubSeq(s, i + 1, i + Len(pat)) = pat

RECURSIVE Find(_, _, _)
Find(s, pat, start) ==
    IF start + Len(pat) > Len(s) THEN -1
    ELSE IF IsAt(s, pat, start) THEN start
    ELSE Find(s, pat, start + 1)

Contains(s, pat) == Find(s, pat, 0) # -1

RECURSIVE RFindFrom(_, _, _)
RFindFrom(s, c, i) ==
    IF i < 0 THEN -1
    ELSE IF s[i + 1] = c THEN i
    ELSE RFindFrom(s, c, i - 1)

RFind(s, c) == RFindFrom(s, c, Len(s) - 1)

RECURSIVE ReplaceFrom(_, _, _, _)
ReplaceFrom(s, old, new, i) ==
    IF i >= Len(s) THEN << >>
    ELSE IF IsAt(s, old, i) THEN new \o ReplaceFrom(s, old, new, i + Len(old))
    ELSE << s[i + 1] >> \o ReplaceFrom(s, old, new, i + 1)

RECURSIVE Interleave(_, _, _)
Interleave(s, new, i) ==
    IF i >= Len(s) THEN new
    ELSE new \o << s[i + 1] >> \o Interleave(s, new, i + 1)

Replace(s, old, new) == IF old = << >> THEN Interleave(s, new, 0) ELSE ReplaceFrom(s, old, new, 0)

RECURSIVE Count(_, _, _)
Count(s, c, i) ==
    IF i >= Len(s) THEN 0
    ELSE (IF s[i + 1] = c THEN 1 ELSE 0) + Count(s, c, i + 1)

AnyIn(s, chars) == \E i \in 1..Len(s) : s[i] \in chars

(***************************************************************************)
(* Numbers.  A float is the integer v standing for v / Scale.  float(text)  *)
(* and str(number) are modelled by what Python does on the characters the   *)
(* calculator can produce: an optional sign, digits with at most one '.',   *)
(* at least one digit; anything else raises ValueError.                     *)
(***************************************************************************)
DigitChars == << "0", "1", "2", "3", "4", "5", "6", "7", "8", "9" >>
DigitOf(c) == (CHOOSE i \in 1..10 : DigitChars[i] = c) - 1

Num(v) == [k |-> "num", v |-> v]
ValueError == [k |-> "ValueError", v |-> 0]
Unmodelled == [k |-> "unmodelled", v |-> 0]
CalculatorError == [k |-> "CalculatorError", v |-> 0]
Ranged(v) == IF Abs(v) <= MaxAbs * Scale THEN Num(v) ELSE Unmodelled

RECURSIVE DigitsVal(_, _, _)
DigitsVal(ds, i, acc) ==
    IF i > Len(ds) THEN acc
    ELSE IF acc > MaxAbs THEN acc
    ELSE DigitsVal(ds, i + 1, acc * 10 + DigitOf(ds[i]))

RECURSIVE StripTrailingZeros(_)
StripTrailingZeros(ds) ==
    IF ds # << >> /\ ds[Len(ds)] = "0" THEN StripTrailingZeros(SubSeq(ds, 1, Len(ds) - 1))
    ELSE ds

ParseUnsigned(body) ==
    LET dot == Find(body, << "." >>, 0)
        ip == IF dot = -1 THEN body ELSE Upto(body, dot)
        fp == IF dot = -1 THEN << >> ELSE StripTrailingZeros(From(body, dot + 1))
        iv == DigitsVal(ip, 1, 0)
    IN  IF \/ \E i \in 1..Len(body) : body[i] \notin Digits \cup {"."}
           \/ Count(body, ".", 0) > 1
           \/ ~ AnyIn(body, Digits)
        THEN ValueError
        ELSE IF iv > MaxAbs \/ Len(fp) > FracBits THEN Unmodelled
        ELSE IF (DigitsVal(fp, 1, 0) * Scale) % (10 ^ Len(fp)) # 0 THEN Unmodelled
        ELSE Ranged(iv * Scale + (DigitsVal(fp, 1, 0) * Scale) \div (10 ^ Len(fp)))

ParseFloat(text) ==
    IF text # << >> /\ text[1] \in {"+", "-"}
    THEN LET Signed(r) == IF r.k = "num" /\ text[1] = "-" THEN Num(-r.v) ELSE r
         IN  Signed(ParseUnsigned(Tail(text)))
    ELSE ParseUnsigned(text)

RECURSIVE IntToStr(_)
IntToStr(n) ==
    IF n < 10 THEN << DigitChars[n + 1] >>
    ELSE IntToStr(n \div 10) \o << DigitChars[(n % 10) + 1] >>

RECURSIVE ZeroPad(_, _)
ZeroPad(ds, width) == IF Len(ds) >= width THEN ds ELSE ZeroPad(<< "0" >> \o ds, width)

\* str(int(answer)) when answer.is_integer(), else str(answer)
FormatNumber(v) ==
    LET a == Abs(v)
        ip == a \div Scale
        r == a % Scale
        sign == IF v < 0 THEN << "-" >> ELSE << >>
    IN  IF r = 0 THEN sign \o IntToStr(ip)
        ELSE sign \o IntToStr(ip) \o << "." >>
                  \o StripTrailingZeros(ZeroPad(IntToStr(r * (5 ^ FracBits)), FracBits))

(***************************************************************************)
(* Arithmetic primitives (do_the_math, get_exponent_answer).                *)
(***************************************************************************)
MulScaled(a, b) == IF (a * b) % Scale = 0 THEN Ranged((a * b) \div Scale) ELSE Unmodelled
DivScaled(a, b) ==
    IF (Abs(a) * Scale) % Abs(b) # 0 THEN Unmodelled
    ELSE IF (a < 0) = (b < 0) THEN Ranged((Abs(a) * Scale) \div Abs(b))
    ELSE Ranged(-((Abs(a) * Scale) \div Abs(b)))
\* Python's float %: the result takes the sign of the divisor
PyMod(a, b) == IF b > 0 THEN a % b ELSE -((-a) % (-b))

\* base ** n for an integer n >= 0, by repeated multiplication from acc
RECURSIVE PowFrom(_, _, _)
PowFrom(base, n, acc) ==
    IF n = 0 \/ acc.k # "num" THEN acc
    ELSE PowFrom(base, n - 1, MulScaled(acc.v, base))

PowNat(base, n) ==
    IF n = 0 THEN Num(Scale)
    ELSE IF base = 0 THEN Num(0)
    ELSE IF base = Scale THEN Num(Scale)
    ELSE IF base = -Scale THEN Num(IF n % 2 = 0 THEN Scale ELSE -Scale)
    ELSE PowFrom(base, n, Num(Scale))

PowInt(base, n) ==
    IF n >= 0 THEN PowNat(base, n)
    ELSE IF base = 0 THEN CalculatorError
    ELSE LET p == PowNat(base, -n)
         IN  IF p.k = "num" THEN DivScaled(Scale, p.v) ELSE p

IsSquare(b) == \E r \in 0..b : r * r = b
Sqrt(b) == CHOOSE r \in 0..b : r * r = b

\* get_exponent_answer with 0^0 treated as undefined instead of 1
get_exponent_answer_zero_undefined(base, exponent) ==
    IF base = 0 /\ exponent = 0 THEN CalculatorError
    ELSE IF base < 0 /\ exponent % Scale # 0 THEN CalculatorError
    ELSE IF exponent % Scale = 0 THEN PowInt(base, exponent \div Scale)
    ELSE IF base = 0 THEN (IF exponent > 0 THEN Num(0) ELSE CalculatorError)
    ELSE IF base = Scale THEN Num(Scale)
    ELSE IF (2 * exponent) % Scale = 0 /\ base % Scale = 0 /\ IsSquare(base \div Scale)
         THEN PowInt(Sqrt(base \div Scale) * Scale, (2 * exponent) \div Scale)
    ELSE Unmodelled

get_exponent_answer(base, exponent) ==
    IF base = 0 /\ exponent = 0 THEN Num(Scale)
    ELSE IF base < 0 /\ exponent % Scale # 0 THEN CalculatorError
    ELSE IF exponent % Scale = 0 THEN PowInt(base, exponent \div Scale)
    ELSE IF base = 0 THEN (IF exponent > 0 THEN Num(0) ELSE CalculatorError)
    ELSE IF base = Scale THEN Num(Scale)
    ELSE IF (2 * exponent) % Scale = 0 /\ base % Scale = 0 /\ IsSquare(base \div Scale)
         THEN PowInt(Sqrt(base \div Scale) * Scale, (2 * exponent) \div Scale)
    ELSE Unmodelled

do_the_math(first_num, second_num, operator) ==
    CASE operator = "+" -> Ranged(first_num + second_num)
      [] operator = "-" -> Ranged(first_num - second_num)
      [] operator = "*" -> MulScaled(first_num, second_num)
      [] operator = "/" -> IF second_num = 0 THEN CalculatorError ELSE DivScaled(first_num, second_num)
      [] operator = "%" -> IF second_num = 0 THEN CalculatorError ELSE Num(PyMod(first_num, second_num))
      [] operator = "^" -> get_exponent_answer(first_num, second_num)
      [] OTHER -> CalculatorError

(***************************************************************************)
(* Normaliser (clean_expression, normalize_unary).                          *)
(***************************************************************************)
clean_expression(expression_to_clean) == SelectSeq(expression_to_clean, LAMBDA c : c \notin Whitespace)

ContainsAny(s, pats) == \E q \in pats : Contains(s, q)

RECURSIVE BracketSigns(_)
BracketSigns(expr) ==
    IF ContainsAny(expr, {<< "*", "-", "(", "-" >>, << "/", "-", "(", "-" >>,
                          << "+", "-", "(", "-" >>, << "-", "-", "(", "-" >>})
    THEN BracketSigns(
           Replace(Replace(Replace(Replace(Replace(expr,
               << "*", "-", "(", "-" >>, << "*", "(" >>),
               << "/", "-", "(", "-" >>, << "/", "(" >>),
               << "+", "-", "(", "-" >>, << "+", "(" >>),
               << "-", "-", "(", "-" >>, << "-", "(" >>),
               << "^", "-", "-", "(" >>, << "^", "+", "(" >>))
    ELSE expr

RECURSIVE DoubleSigns(_)
DoubleSigns(expr) ==
    IF ContainsAny(expr, {<< "-", "-" >>, << "+", "-" >>, << "-", "+" >>, << "+", "+" >>})
    THEN DoubleSigns(
           Replace(Replace(Replace(Replace(Replace(expr,
               << "-", "-" >>, << "+" >>),
               << "+", "-" >>, << "-" >>),
               << "-", "+" >>, << "-" >>),
               << "+", "+" >>, << "+" >>),
               << "^", "^" >>, << "^" >>))
    ELSE expr

RECURSIVE NegRuns(_)
NegRuns(expr) ==
    IF ContainsAny(expr, {<< "-", "-", "-" >>, << "-", "-", "-", "-" >>})
    THEN NegRuns(Replace(Replace(expr, << "-", "-", "-" >>, << "-" >>),
                         << "-", "-", "-", "-" >>, << "+" >>))
    ELSE expr

normalize_unary(expr) ==
    LET e == NegRuns(DoubleSigns(BracketSigns(expr)))
    IN  IF e # << >> /\ e[1] = "+" THEN Tail(e) ELSE e

(***************************************************************************)
(* Validator.                                                               *)
(***************************************************************************)
pairs(c) == CASE c = ")" -> "(" [] c = "]" -> "[" [] c = "}" -> "{"

\* result: [expr, has_changed_expr, err]; err = "IndexError" when expr[1] or
\* expr[2] is read past the end of the string
fix_double_neg_at_beg_of_expr(expr, open_paren_pos) ==
    IF PyAt(expr, 0) # "-" THEN [expr |-> expr, has_changed_expr |-> FALSE, err |-> ""]
    ELSE IF ~ InRange(expr, 1) THEN [expr |-> expr, has_changed_expr |-> FALSE, err |-> "IndexError"]
    ELSE IF PyAt(expr, 1) # "(" THEN [expr |-> expr, has_changed_expr |-> FALSE, err |-> ""]
    ELSE IF ~ InRange(expr, 2) THEN [expr |-> expr, has_changed_expr |-> FALSE, err |-> "IndexError"]
    ELSE IF PyAt(expr, 2) # "-" THEN [expr |-> expr, has_changed_expr |-> FALSE, err |-> ""]
    ELSE [expr |-> << "(" >> \o From(expr, 3), has_changed_expr |-> TRUE, err |-> ""]

BalResult(result, expr, err) == [result |-> result, expr |-> expr, err |-> err]

\* the for loop of return_bal_paren_or_ambiguous from position i with the
\* given stack; the recursive call on the rewritten string starts a new loop
RECURSIVE BalLoop(_, _, _, _)
BalLoop(expr, check_paren, i, stack) ==
    IF i >= Len(expr) THEN BalResult(Len(stack) = 0 /\ check_paren, expr, "")
    ELSE LET char == PyAt(expr, i) IN
      IF char \in Openers THEN
        IF i - 1 >= 0 /\ ~ check_paren /\ PyAt(expr, i - 1) \in Digits
        THEN BalResult(TRUE, expr, "")
        ELSE LET fix == fix_double_neg_at_beg_of_expr(expr, i) IN
             IF fix.err # "" THEN BalResult(FALSE, expr, fix.err)
             ELSE IF fix.has_changed_expr
             THEN LET rec == BalLoop(fix.expr, TRUE, 0, << >>)
                  IN  IF rec.err # "" THEN rec
                      ELSE BalResult(IF Len(stack) = 0 /\ check_paren THEN TRUE ELSE rec.result,
                                     rec.expr, "")
             ELSE BalLoop(expr, check_paren, i + 1, Append(stack, char))
      ELSE IF char \in Closers THEN
        IF i + 1 <= Len(expr) - 1 /\ PyAt(expr, i + 1) \in Digits /\ ~ check_paren
        THEN BalResult(TRUE, expr, "")
        ELSE IF stack = << >> \/ stack[Len(stack)] # pairs(char)
        THEN BalResult(FALSE, expr, "")
        ELSE BalLoop(expr, check_paren, i + 1, SubSeq(stack, 1, Len(stack) - 1))
      ELSE BalLoop(expr, check_paren, i + 1, stack)

return_bal_paren_or_ambiguous(expr, check_paren) == BalLoop(expr, check_paren, 0, << >>)
is_balanced_paren(expr) == return_bal_paren_or_ambiguous(expr, TRUE)
\* is_ambiguous called with the flag of the balance check
is_ambiguous_with_balance_flag(expr) == return_bal_paren_or_ambiguous(expr, TRUE)
is_ambiguous(expr) == return_bal_paren_or_ambiguous(expr, FALSE)

\* has_leading_or_trailing_op without the test of the last character
has_leading_op(expr) == PyAt(expr, 0) \in OPERATORS /\ PyAt(expr, 0) # "-"

has_leading_or_trailing_op(expr) ==
    \/ PyAt(expr, Len(expr) - 1) \in OPERATORS
    \/ PyAt(expr, 0) \in OPERATORS /\ PyAt(expr, 0) # "-"

\* has_double_op without the exemption of a second '-'
has_double_op_no_unary_minus(expr) ==
    \E i \in 0..(Len(expr) - 2) : PyAt(expr, i) \in OPERATORS /\ PyAt(expr, i + 1) \in OPERATORS

has_double_op(expr) ==
    \E i \in 0..(Len(expr) - 2) :
        /\ PyAt(expr, i) \in OPERATORS
        /\ PyAt(expr, i + 1) \in OPERATORS
        /\ PyAt(expr, i + 1) # "-"

\* every maximal run of digits and dots, starting at i, has at most one dot
RECURSIVE ValidNumbersFrom(_, _, _)
ValidNumbersFrom(expr, i, dots) ==
    IF i >= Len(expr) THEN dots <= 1
    ELSE IF PyAt(expr, i) \in Digits THEN ValidNumbersFrom(expr, i + 1, dots)
    ELSE IF PyAt(expr, i) = "." THEN ValidNumbersFrom(expr, i + 1, dots + 1)
    ELSE IF dots > 1 THEN FALSE
    ELSE ValidNumbersFrom(expr, i + 1, 0)

is_valid_numbers(expr) == ValidNumbersFrom(expr, 0, 0)

BracketChars == {"[", "]", "{", "}", "(", ")"}
div_by_0 == {<< "/", "0" >>, << "%", "0" >>}
EmptyPairs == {<< "(", ")" >>, << "[", "]" >>, << "{", "}" >>}

\* One guarded check of is_valid_input: v is [val, expr, errors, err].
Fail(v, kind) == [v EXCEPT !.val = FALSE, !.errors = Append(@, kind)]

CheckBlank(v) == IF v.expr = << >> THEN Fail(v, "EmptyInput") ELSE v

CheckCharacters(v) ==
    IF \E i \in 1..Len(v.expr) : v.expr[i] \notin valid THEN Fail(v, "InvalidCharacter") ELSE v

CheckLeadingTrailing(v) ==
    IF v.val /\ has_leading_or_trailing_op(v.expr) THEN Fail(v, "LeadingOrTrailingOperator") ELSE v

CheckBalanced(v) ==
    IF v.val /\ AnyIn(v.expr, BracketChars)
    THEN LET b == is_balanced_paren(v.expr)
         IN  IF b.err # "" THEN [v EXCEPT !.err = b.err]
             ELSE IF b.result THEN [v EXCEPT !.expr = b.expr]
             ELSE Fail([v EXCEPT !.expr = b.expr], "UnbalancedBrackets")
    ELSE v

CheckAmbiguous(v) ==
    IF v.err = "" /\ v.val /\ AnyIn(v.expr, BracketChars)
    THEN LET a == is_ambiguous(v.expr)
         IN  IF a.err # "" THEN [v EXCEPT !.err = a.err]
             ELSE IF a.result THEN Fail(v, "AmbiguousBrackets")
             ELSE v
    ELSE v

CheckDoubleOp(v) ==
    IF v.err = "" /\ v.val /\ has_double_op(v.expr) THEN Fail(v, "DoubleOperator") ELSE v

CheckDivByZero(v) ==
    IF v.err = "" /\ v.val /\ ContainsAny(v.expr, div_by_0) THEN Fail(v, "LiteralDivideByZero") ELSE v

CheckNumbers(v) ==
    IF v.err = "" /\ v.val /\ ~ is_valid_numbers(v.expr) THEN Fail(v, "MalformedNumber") ELSE v

\* result: val and the (possibly rewritten) expression of the source's return
\* value, errors = the rejection messages printed, in order, err = the
\* exception that ended the call ("" when it returned)
is_valid_input(input_to_validate) ==
    CheckNumbers(CheckDivByZero(CheckDoubleOp(CheckAmbiguous(CheckBalanced(
      CheckLeadingTrailing(CheckCharacters(CheckBlank(
        [val |-> TRUE, expr |-> input_to_validate, errors |-> << >>, err |-> ""]))))))))

(***************************************************************************)
(* Flat reducer: the helpers of calculate.                                  *)
(***************************************************************************)
get_num_operators(expression) ==
    Cardinality({i \in 0..(Len(expression) - 1) :
        /\ PyAt(expression, i) \in OPERATORS
        /\ ~ (PyAt(expression, i) = "-" /\ i = 0)
        /\ ~ (PyAt(expression, i) = "-" /\ PyAt(expression, i - 1) \in OPERATORS)})

\* index of the first character of expr in operators that is not a '-' at
\* index 0, or -1
RECURSIVE FirstMatch(_, _, _)
FirstMatch(expr, operators, i) ==
    IF i >= Len(expr) THEN -1
    ELSE IF PyAt(expr, i) \in operators /\ ~ (PyAt(expr, i) = "-" /\ i = 0) THEN i
    ELSE FirstMatch(expr, operators, i + 1)

ScanOperators(expr, operators) ==
    LET m == FirstMatch(expr, operators, 0)
        first_operator == PyAt(expr, m)
    IN  IF m = -1 THEN -1
        ELSE IF first_operator = "-" /\ PyAt(expr, 0) = "-" THEN Find(expr, << first_operator >>, 1)
        ELSE Find(expr, << first_operator >>, 0)

\* a search that takes the exponent tier from the left like the other tiers
find_operator_pos_leftmost_power(expr, precidence) ==
    IF precidence = "mult_div" THEN ScanOperators(expr, {"*", "/", "%"})
    ELSE IF precidence = "exponent" THEN ScanOperators(expr, {"^"})
    ELSE ScanOperators(expr, {"+", "-"})

find_operator_pos(expr, precidence) ==
    IF precidence = "mult_div" THEN ScanOperators(expr, {"*", "/", "%"})
    ELSE IF precidence = "exponent"
    THEN (IF Contains(expr, << "^" >>) THEN RFind(expr, "^") ELSE ScanOperators(expr, {"^"}))
    ELSE ScanOperators(expr, {"+", "-"})

which_operator(expression_to_calc) ==
    LET p1 == find_operator_pos(expression_to_calc, "exponent")
        p2 == IF p1 = -1 THEN find_operator_pos(expression_to_calc, "mult_div") ELSE p1
    IN  IF p2 = -1 THEN find_operator_pos(expression_to_calc, "add_sub") ELSE p2

RECURSIVE ScanLeft(_, _)
ScanLeft(expression, left) ==
    IF left >= 0 /\ PyAt(expression, left) \notin OPERATORS THEN ScanLeft(expression, left - 1)
    ELSE left

RECURSIVE ScanRight(_, _)
ScanRight(expression, right) ==
    IF right < Len(expression) /\ PyAt(expression, right) \notin OPERATORS
    THEN ScanRight(expression, right + 1)
    ELSE right

\* result: [sub_exp, left, right, err]; err = "IndexError" when
\* expression[pos_operator + 1] is past the end of the string
get_subexpression(expression, pos_operator) ==
    LET left1 == ScanLeft(expression, pos_operator - 1) + 1
        left == IF left1 = 1 /\ PyAt(expression, 0) = "-" THEN 0 ELSE left1
        right0 == pos_operator + 1
    IN  IF ~ InRange(expression, right0)
        THEN [sub_exp |-> << >>, left |-> left, right |-> right0, err |-> "IndexError"]
        ELSE LET right == ScanRight(expression,
                            IF PyAt(expression, right0) = "-" THEN right0 + 1 ELSE right0)
             IN  [sub_exp |-> PySlice(expression, left, right), left |-> left,
                  right |-> right, err |-> ""]

\* result: [first, second, operator] with first and second the outcome of
\* float() on the operand texts
get_elements(expr, left, right, op) ==
    [first |-> ParseFloat(PySlice(expr, left, op)),
     second |-> ParseFloat(PySlice(expr, op + 1, right)),
     operator |-> IF PySlice(expr, op, op + 1) = << >> THEN "" ELSE PySlice(expr, op, op + 1)[1]]

\* the for loop of strip_odd_double_operators: i and each run over the string
\* as it was on entry (orig), the deletions are made in cur
RECURSIVE StripLoop(_, _, _)
StripLoop(orig, cur, i) ==
    IF i >= Len(orig) THEN [expr |-> cur, err |-> ""]
    ELSE IF PyAt(orig, i) # "+" THEN StripLoop(orig, cur, i + 1)
    ELSE IF ~ InRange(cur, i - 1) THEN [expr |-> cur, err |-> "IndexError"]
    ELSE IF PyAt(cur, i - 1) \in OPERATORS
    THEN StripLoop(orig, Upto(cur, i) \o From(cur, i + 1), i + 1)
    ELSE StripLoop(orig, cur, i + 1)

strip_odd_double_operators(expr) == StripLoop(expr, expr, 0)

\* the pre-pass of calculate (lines 341-347)
PrePass(expr) ==
    LET douuble_neg_pos == Find(expr, << "-", "-" >>, 0)
    IN  IF douuble_neg_pos = -1 THEN [expr |-> expr, err |-> ""]
        ELSE IF douuble_neg_pos = 0 THEN [expr |-> Replace(expr, << "-", "-" >>, << >>), err |-> ""]
        ELSE strip_odd_double_operators(Replace(expr, << "-", "-" >>, << "+" >>))

ERROR == << "E", "R", "R", "O", "R" >>

\* One iteration of the for loop of calculate (lines 354-372) on the working
\* string expr.  outcome: "next" (expr replaced, loop goes on), "ERROR" (the
\* except clause returns "ERROR"), "IndexError" / "ValueError" (the exception
\* leaves calculate), "unmodelled" (a float the model does not represent).
CalcIteration(expr) ==
    LET Stay(outcome, zero) == [outcome |-> outcome, expr |-> expr, zero |-> zero]
        Substitute(sub, el, answer) ==
            IF answer.k = "CalculatorError"
            THEN Stay("ERROR", el.operator \in {"/", "%"} /\ el.second.v = 0)
            ELSE IF answer.k = "unmodelled" THEN Stay("unmodelled", FALSE)
            ELSE [outcome |-> "next", expr |-> Replace(expr, sub.sub_exp, FormatNumber(answer.v)),
                  zero |-> FALSE]
        Solve(sub, el) ==
            IF el.first.k = "ValueError" \/ el.second.k = "ValueError" THEN Stay("ValueError", FALSE)
            ELSE IF el.first.k = "unmodelled" \/ el.second.k = "unmodelled"
            THEN Stay("unmodelled", FALSE)
            ELSE Substitute(sub, el, do_the_math(el.first.v, el.second.v, el.operator))
        Elements(pos_operator, sub) ==
            IF sub.err # "" THEN Stay(sub.err, FALSE)
            ELSE Solve(sub, get_elements(expr, sub.left, sub.right, pos_operator))
        SubExpression(pos_operator) == Elements(pos_operator, get_subexpression(expr, pos_operator))
    IN  SubExpression(which_operator(expr))

(***************************************************************************)
(* Bracket resolver: the region evaluate_expression selects (lines 36-49).  *)
(***************************************************************************)
RECURSIVE FirstIn(_, _, _)
FirstIn(expr, chars, i) ==
    IF i >= Len(expr) THEN -1
    ELSE IF PyAt(expr, i) \in chars THEN i
    ELSE FirstIn(expr, chars, i + 1)

RECURSIVE LastInBefore(_, _, _)
LastInBefore(expr, chars, i) ==
    IF i < 0 THEN -1
    ELSE IF PyAt(expr, i) \in chars THEN i
    ELSE LastInBefore(expr, chars, i - 1)

TargetClose(expr) == FirstIn(expr, Closers, 0)
\* a scan for the opening bracket that runs forward from the start of the string
TargetOpenFromStart(expr) == FirstIn(expr, Openers, 0)
TargetOpen(expr) == LastInBefore(expr, Openers, TargetClose(expr))
InnerExpr(expr) == PySlice(expr, TargetOpen(expr) + 1, TargetClose(expr))

(***************************************************************************)
(* Inputs typed at the prompt: every string of at most MaxLen characters    *)
(* over Alphabet and of at most ShortLen characters over WideAlphabet,      *)
(* every flat expression of at most MaxOperators operators over             *)
(* FlatOperands and FlatOps, bracketed expressions nested at most           *)
(* MaxNesting deep, and the examples of the docstrings and of the           *)
(* specification.                                                           *)
(***************************************************************************)
Alphabet == {"0", "2", "+", "-", "/", ".", "(", ")"}
WideAlphabet == {"0", "1", "2", ".", "+", "-", "*", "/", "^", "%",
                 "(", ")", "[", "]", "{", "}", "a", " "}
FlatOperands == {<< "1" >>, << "2" >>}
FlatOps == {"+", "-", "*", "/", "^"}
MaxNesting == 2

RECURSIVE Strings(_, _)
Strings(alphabet, n) ==
    IF n = 0 THEN {<< >>}
    ELSE LET shorter == Strings(alphabet, n - 1)
         IN  shorter \cup {Append(t, c) : t \in {u \in shorter : Len(u) = n - 1}, c \in alphabet}

RECURSIVE Flat(_, _, _)
Flat(operands, ops, n) ==
    IF n = 0 THEN operands
    ELSE LET shorter == Flat(operands, ops, n - 1)
         IN  shorter \cup {t \o << o >> \o x : t \in shorter, o \in ops, x \in operands}

Cores == Flat({<< "0" >>, << "1" >>, << "2" >>}, {"+", "-", "*", "/", "^"}, 1)
Prefixes == {<< >>, << "-" >>, << "1", "+" >>, << "2", "*" >>, << "2", "/" >>, << "2", "^" >>}
Suffixes == {<< >>, << "+", "1" >>, << "^", "2" >>}

RECURSIVE Nested(_)
Nested(d) ==
    IF d = 1 THEN {q \o << "(" >> \o c \o << ")" >> \o x : q \in Prefixes, c \in Cores, x \in Suffixes}
    ELSE Nested(d - 1) \cup
         {q \o << "(" >> \o c \o << ")" >> : q \in {<< >>, << "-" >>, << "1", "+" >>},
                                            c \in {u \in Nested(d - 1) : Len(u) <= 7}}

Examples ==
    {<< "1", "5", "+", "(", "9", "*", "2", ")" >>,
     << "1", "5", "+", "(", "9", "*", "2", ")", "+", "(", "8", "-", "4", ")" >>,
     << "1", "5", "+", "(", "9", "*", "2", "+", "(", "8", "-", "4", ")", ")", "+", "5" >>,
     << "2", "+", "3", "*", "4" >>,
     << "2", "^", "3", "^", "2" >>,
     << "3", "^", "3", "^", "3" >>,
     << "0", "^", "0", "^", "0" >>,
     << "1", "2", "^", "2", "^", "2" >>,
     << "1", "+", "1", "+", "1", "+", "1" >>,
     << "2", "*", "3", "+", "2", "*", "3" >>,
     << "4", "*", "(", "5", "+", "2" >>,
     << "4", "(", "5", "+", "2", ")" >>,
     << "(", "5", "+", "2", ")", "4" >>,
     << "4", "*", "(", "5", "+", "2", ")" >>,
     << "5", "+", "+", "3" >>,
     << "5", "+", "-", "3" >>,
     << "5", "/", "0" >>,
     << "5", "/", "(", "4", "-", "4", ")" >>,
     << "1", "+", "(", "5", "/", "(", "4", "-", "4", ")", ")" >>,
     << "1", "5", " ", "+", " ", "(", "9", " ", "*", "2", ")" >>,
     << "-", "(", "-", "5", "+", "3", ")" >>,
     << "5", "%", "0" >>,
     << "7", "%", "(", "2", "-", "2", ")" >>,
     << "-", "[", "-", "5", "]", "-", "[", "-", "3", "]" >>,
     << "2", "*", "-", "+", "(", "-", "3", ")" >>,
     << "(", "-", "4", ")", "^", "0", ".", "5" >>,
     << "2", "+", "(", "-", "4", ")", "^", "0", ".", "5" >>,
     << "0", "^", "0" >>,
     << "(", "1", "-", "1", ")", "^", "(", "2", "-", "2", ")" >>,
     << "-", "(", "-", "5", ")" >>,
     << "-", "(", "-", "5", ")", "*", "2" >>,
     << "2", "*", "-", "[", "-", "3", "]", "*", "-", "[", "-", "4", "]" >>,
     << "2", "*", "-", "[", "-", "3", "]" >>,
     << "-", "[", "-", "5", "+", "3", "]" >>,
     << "2", "*", "-", "(", "-", "3", "+", "1", ")" >>,
     << "2", "*", "-", "(", "-", "3", ")" >>,
     << "(", "2", ")", "(", "3", ")" >>,
     << "(", "2", ")", "[", "3", "]" >>,
     << "5", "+", "(", "1", "-", "3", ")", "^", "2" >>,
     << "5", "-", "(", "1", "-", "3", ")", "^", "2" >>,
     << "5", "+", "(", "3", "-", "1", ")", "^", "2" >>}

Inputs == Strings(Alphabet, MaxLen) \cup Strings(WideAlphabet, ShortLen) \cup Flat(FlatOperands, FlatOps, MaxOperators) \cup Nested(MaxNesting) \cup Examples

(***************************************************************************)
(* State.                                                                   *)
(***************************************************************************)
VARIABLES
    pc,            \* position in main(): "prompt", "entered", "normalized",
                   \* "evaluate", "calculate", "done", "rejected", "exited",
                   \* "crashed", "unmodelled"
    raw,           \* the line read by input()
    norm,          \* normalize_unary(clean_expression(raw))
    errors,        \* rejection messages printed by is_valid_input
    accepted,      \* the expression returned by get_num_input
    expr,          \* argument of the current call of evaluate_expression
    calls,         \* nested calls of evaluate_expression so far
    target_open,   \* bracket region of the current call
    target_close,
    is_paren_exp,  \* calculate's flag
    calc_arg,      \* the text handed to calculate
    work,          \* calculate's working string (its local expr)
    todo,          \* iterations of calculate's loop still to run
    result,        \* value returned by evaluate_expression
    err,           \* the unhandled exception, "" when none
    failed,        \* a CalculatorError was caught while evaluating this input
    zero_div,      \* do_the_math was given a zero divisor of '/' or '%'
    earlier        \* what an observer of the session noted of one earlier line:
                   \* << >>, or one record of the line and what main printed

vars == << pc, raw, norm, errors, accepted, expr, calls, target_open, target_close,
           is_paren_exp, calc_arg, work, todo, result, err, failed, zero_div,
           _OPERATORS, earlier >>

Fresh ==
    /\ pc = "prompt"
    /\ raw = << >> /\ norm = << >> /\ errors = << >> /\ accepted = << >>
    /\ expr = << >> /\ calls = 0 /\ target_open = -1 /\ target_close = -1
    /\ is_paren_exp = FALSE /\ calc_arg = << >> /\ work = << >> /\ todo = 0
    /\ result = << >> /\ err = "" /\ failed = FALSE /\ zero_div = FALSE

\* __init__ (lines 793-794), then main() is entered
Init ==
    /\ Fresh
    /\ _OPERATORS = {"*", "/", "+", "-", "^", "%"}
    /\ earlier = << >>

evalVars == << expr, calls, target_open, target_close, is_paren_exp, calc_arg, work, todo,
               result, failed, zero_div >>

\* get_num_input, line 728: a line is read
ReadInput ==
    /\ pc = "prompt"
    /\ \E s \in Inputs : raw' = s
    /\ pc' = "entered"
    /\ UNCHANGED << norm, errors, accepted, err, _OPERATORS, earlier >>
    /\ UNCHANGED evalVars

\* get_num_input, lines 729-730
Normalize ==
    /\ pc = "entered"
    /\ norm' = normalize_unary(clean_expression(raw))
    /\ pc' = "normalized"
    /\ UNCHANGED << raw, errors, accepted, err, _OPERATORS, earlier >>
    /\ UNCHANGED evalVars

\* get_num_input, lines 731-734, and main, line 782: the validated expression
\* is passed to evaluate_expression; an IndexError is not caught (line 735
\* catches ValueError only)
Validate ==
    /\ pc = "normalized"
    /\ LET Verdict(v) ==
               /\ errors' = v.errors
               /\ err' = v.err
               /\ IF v.err # "" THEN pc' = "crashed" /\ UNCHANGED << accepted, expr, calls >>
                  ELSE IF v.val THEN pc' = "evaluate" /\ accepted' = v.expr /\ expr' = v.expr /\ calls' = 1
                  ELSE pc' = "rejected" /\ UNCHANGED << accepted, expr, calls >>
       IN  Verdict(is_valid_input(norm))
    /\ UNCHANGED << raw, norm, target_open, target_close, is_paren_exp, calc_arg, work, todo,
                    result, failed, zero_div, _OPERATORS, earlier >>

\* entry of calculate(arg, flag): pre-pass and operator count (lines 341-350)
EnterCalculate(arg, flag) ==
    LET Enter(pre) ==
            /\ calc_arg' = arg
            /\ is_paren_exp' = flag
            /\ IF pre.err # ""
               THEN pc' = "crashed" /\ err' = pre.err /\ UNCHANGED << work, todo >>
               ELSE pc' = "calculate" /\ work' = pre.expr /\ todo' = get_num_operators(pre.expr)
                    /\ UNCHANGED err
    IN  Enter(PrePass(arg))

\* evaluate_expression, lines 31-32: no opening bracket left
EvalFlat ==
    /\ pc = "evaluate"
    /\ ~ AnyIn(expr, Openers)
    /\ EnterCalculate(expr, FALSE)
    /\ UNCHANGED << raw, norm, errors, accepted, expr, calls, target_open, target_close,
                    result, failed, zero_div, _OPERATORS, earlier >>

\* evaluate_expression, lines 36-52: the bracketed region is selected and its
\* interior handed to calculate
EvalBracket ==
    /\ pc = "evaluate"
    /\ AnyIn(expr, Openers)
    /\ target_close' = TargetClose(expr)
    /\ target_open' = TargetOpen(expr)
    /\ EnterCalculate(InnerExpr(expr), TRUE)
    /\ UNCHANGED << raw, norm, errors, accepted, expr, calls, result, failed, zero_div,
                    _OPERATORS, earlier >>

\* a substitution that puts the value between the two brackets and keeps them
ReturnKeepingBrackets(value) ==
    IF is_paren_exp
    THEN IF calls >= RecursionLimit
         THEN pc' = "crashed" /\ err' = "RecursionError" /\ UNCHANGED << expr, calls, result >>
         ELSE /\ pc' = "evaluate"
              /\ expr' = Upto(expr, target_open + 1) \o value \o From(expr, target_close)
              /\ calls' = calls + 1
              /\ UNCHANGED << result, err >>
    ELSE pc' = "done" /\ result' = value /\ UNCHANGED << expr, calls, err >>

\* calculate returns value to its caller: evaluate_expression either returns
\* it (line 32) or substitutes it and calls itself (lines 56-59)
Return(value) ==
    IF is_paren_exp
    THEN IF calls >= RecursionLimit
         THEN pc' = "crashed" /\ err' = "RecursionError" /\ UNCHANGED << expr, calls, result >>
         ELSE /\ pc' = "evaluate"
              /\ expr' = Upto(expr, target_open) \o value \o From(expr, target_close + 1)
              /\ calls' = calls + 1
              /\ UNCHANGED << result, err >>
    ELSE pc' = "done" /\ result' = value /\ UNCHANGED << expr, calls, err >>

\* one iteration of calculate's loop (lines 353-372)
CalcIterate ==
    /\ pc = "calculate"
    /\ todo > 0
    /\ LET Step(it) ==
               /\ zero_div' = (zero_div \/ it.zero)
               /\ CASE it.outcome = "next" ->
                         /\ work' = it.expr /\ todo' = todo - 1
                         /\ UNCHANGED << pc, expr, calls, result, err, failed >>
                    [] it.outcome = "ERROR" ->
                         /\ failed' = TRUE
                         /\ Return(ERROR)
                         /\ UNCHANGED << work, todo >>
                    [] it.outcome = "unmodelled" ->
                         /\ pc' = "unmodelled"
                         /\ UNCHANGED << work, todo, expr, calls, result, err, failed >>
                    [] OTHER ->
                         /\ pc' = "crashed" /\ err' = it.outcome
                         /\ UNCHANGED << work, todo, expr, calls, result, failed >>
       IN  Step(CalcIteration(work))
    /\ UNCHANGED << raw, norm, errors, accepted, target_open, target_close, is_paren_exp, calc_arg,
                    _OPERATORS, earlier >>

\* calculate, line 374: the loop is over
CalcReturn ==
    /\ pc = "calculate"
    /\ todo = 0
    /\ Return(work)
    /\ UNCHANGED << raw, norm, errors, accepted, target_open, target_close, is_paren_exp,
                    calc_arg, work, todo, failed, zero_div, _OPERATORS, earlier >>

\* a restart in which the instance loses '^' from its operator set
ResetLosingOperator ==
    /\ _OPERATORS' = _OPERATORS \ {"^"}
    /\ raw' = << >> /\ norm' = << >> /\ errors' = << >> /\ accepted' = << >>
    /\ expr' = << >> /\ calls' = 0 /\ target_open' = -1 /\ target_close' = -1
    /\ is_paren_exp' = FALSE /\ calc_arg' = << >> /\ work' = << >> /\ todo' = 0
    /\ result' = << >> /\ err' = "" /\ failed' = FALSE /\ zero_div' = FALSE

\* the locals of the finished calls are gone; the instance keeps its attribute
Reset ==
    /\ _OPERATORS' = _OPERATORS
    /\ raw' = << >> /\ norm' = << >> /\ errors' = << >> /\ accepted' = << >>
    /\ expr' = << >> /\ calls' = 0 /\ target_open' = -1 /\ target_close' = -1
    /\ is_paren_exp' = FALSE /\ calc_arg' = << >> /\ work' = << >> /\ todo' = 0
    /\ result' = << >> /\ err' = "" /\ failed' = FALSE /\ zero_div' = FALSE

\* get_num_input, line 726: a rejected line is asked for again
Reprompt ==
    /\ pc = "rejected"
    /\ pc' = "prompt"
    /\ Reset
    /\ UNCHANGED earlier

\* main, lines 788-791: another expression, or the loop ends
DoAnother ==
    /\ pc = "done"
    /\ \E do_another_ans \in {"y", "n", ""} :
          IF do_another_ans = "n"
          THEN /\ pc' = "exited"
               /\ UNCHANGED << raw, norm, errors, accepted, err, _OPERATORS >>
               /\ UNCHANGED evalVars
          ELSE pc' = "prompt" /\ Reset
    /\ UNCHANGED earlier

Next ==
    \/ ReadInput
    \/ Normalize
    \/ Validate
    \/ EvalFlat
    \/ EvalBracket
    \/ CalcIterate
    \/ CalcReturn
    \/ Reprompt
    \/ DoAnother

Spec == Init /\ [][Next]_vars

(***************************************************************************)
(* A session as an observer sees it: the same program, with short lines and  *)
(* the examples typed at the prompt, and one earlier line noted together     *)
(* with what was printed for it, to be compared when it is typed again.      *)
(***************************************************************************)
SessionInputs == Strings(Alphabet, ShortLen) \cup Examples

\* get_num_input, line 728: a line is read; the observer counts the lines read
\* since the noted one (2 stands for "two or more")
ReadSessionInput ==
    /\ pc = "prompt"
    /\ \E s \in SessionInputs : raw' = s
    /\ pc' = "entered"
    /\ earlier' = IF earlier = << >> THEN earlier
                  ELSE << [earlier[1] EXCEPT !.reads = IF @ < 2 THEN @ + 1 ELSE 2] >>
    /\ UNCHANGED << norm, errors, accepted, err, _OPERATORS >>
    /\ UNCHANGED evalVars

\* the observer notes the line just answered (main, lines 783-786) or just
\* rejected (is_valid_input, lines 566-602); the program does nothing
Note ==
    /\ pc \in {"done", "rejected"}
    /\ earlier = << >>
    /\ raw \in Examples
    /\ earlier' = << [raw |-> raw, pc |-> pc, errors |-> errors, result |-> result, reads |-> 0] >>
    /\ UNCHANGED << pc, raw, norm, errors, accepted, err, _OPERATORS >>
    /\ UNCHANGED evalVars

NextSession ==
    \/ ReadSessionInput
    \/ Normalize
    \/ Validate
    \/ EvalFlat
    \/ EvalBracket
    \/ CalcIterate
    \/ CalcReturn
    \/ Reprompt
    \/ DoAnother
    \/ Note

SpecSession == Init /\ [][NextSession]_vars

(***************************************************************************)
(* Definitions used to state the claims.                                    *)
(***************************************************************************)
\* the line has been through is_valid_input
Validated == pc \notin {"prompt", "entered", "normalized"}
\* evaluate_expression has returned or has been left by an exception
Finished == pc \in {"done", "exited"} \/ (pc = "crashed" /\ calls >= 1)
Returned == pc \in {"done", "exited"}
IsNumberText(text) == ParseFloat(text).k # "ValueError"

\* brackets balanced under stack matching, from position i with the stack st
RECURSIVE BalancedFrom(_, _, _)
BalancedFrom(text, i, st) ==
    IF i > Len(text) THEN st = << >>
    ELSE IF text[i] \in Openers THEN BalancedFrom(text, i + 1, Append(st, text[i]))
    ELSE IF text[i] \in Closers
    THEN /\ st # << >>
         /\ << st[Len(st)], text[i] >> \in {<< "(", ")" >>, << "[", "]" >>, << "{", "}" >>}
         /\ BalancedFrom(text, i + 1, SubSeq(st, 1, Len(st) - 1))
    ELSE BalancedFrom(text, i + 1, st)

StackBalanced(text) == BalancedFrom(text, 1, << >>)

\* the string the balance check works on: a leading "-(-" rewritten to "("
Rewritten(text) ==
    IF Len(text) >= 3 /\ SubSeq(text, 1, 3) = << "-", "(", "-" >>
    THEN << "(" >> \o SubSeq(text, 4, Len(text))
    ELSE text

PassesFirstThree(text) ==
    /\ text # << >>
    /\ \A i \in 1..Len(text) : text[i] \in valid
    /\ text[1] \notin OPERATORS \ {"-"}
    /\ text[Len(text)] \notin OPERATORS

DigitAdjacent(text) ==
    \E i \in 1..(Len(text) - 1) :
        \/ text[i] \in Digits /\ text[i + 1] \in Openers
        \/ text[i] \in Closers /\ text[i + 1] \in Digits

BadPair(text) ==
    \E i \in 1..(Len(text) - 1) :
        text[i] \in OPERATORS /\ text[i + 1] \in OPERATORS \ {"-"}

\* the operand texts of a flat expression, split at every operator
RECURSIVE SplitOperands(_, _, _)
SplitOperands(text, i, cur) ==
    IF i > Len(text) THEN << cur >>
    ELSE IF text[i] \in OPERATORS THEN << cur >> \o SplitOperands(text, i + 1, << >>)
    ELSE SplitOperands(text, i + 1, Append(cur, text[i]))

OperandTexts(text) == SplitOperands(text, 1, << >>)
OperatorsOf(text) == SelectSeq(text, LAMBDA c : c \in OPERATORS)

\* unsigned operands separated by single binary operators, no brackets
FlatUnsigned(text) ==
    /\ \A i \in 1..Len(text) : text[i] \in Digits \cup {"."} \cup OPERATORS
    /\ \A i \in 1..Len(OperandTexts(text)) : ParseUnsigned(OperandTexts(text)[i]).k = "num"

\* the value by precedence: the rightmost '^' first, then the leftmost of
\* '*', '/', '%', then the leftmost of '+', '-', each applied to the operand
\* values next to it
RECURSIVE RefReduce(_, _)
RefReduce(nums, ops) ==
    IF ops = << >> THEN Num(nums[1])
    ELSE LET at(S) == {j \in 1..Len(ops) : ops[j] \in S}
             j == IF at({"^"}) # {} THEN CHOOSE x \in at({"^"}) : \A y \in at({"^"}) : y <= x
                  ELSE IF at({"*", "/", "%"}) # {}
                  THEN CHOOSE x \in at({"*", "/", "%"}) : \A y \in at({"*", "/", "%"}) : x <= y
                  ELSE 1
             r == do_the_math(nums[j], nums[j + 1], ops[j])
         IN  IF r.k # "num" THEN r
             ELSE RefReduce(SubSeq(nums, 1, j - 1) \o << r.v >> \o SubSeq(nums, j + 2, Len(nums)),
                            SubSeq(ops, 1, j - 1) \o SubSeq(ops, j + 1, Len(ops)))

RefValue(text) ==
    RefReduce([i \in 1..Len(OperandTexts(text)) |-> ParseUnsigned(OperandTexts(text)[i]).v],
              OperatorsOf(text))

AllDigits(text) == text # << >> /\ \A i \in 1..Len(text) : text[i] \in Digits

\* a ^ b ^ c with non-negative integer literals
ExponentChain(text) ==
    /\ \A i \in 1..Len(text) : text[i] \in Digits \cup {"^"}
    /\ OperatorsOf(text) = << "^", "^" >>
    /\ \A i \in 1..3 : AllDigits(OperandTexts(text)[i])

RightAssociated(text) ==
    LET a == ParseUnsigned(OperandTexts(text)[1])
        b == ParseUnsigned(OperandTexts(text)[2])
        c == ParseUnsigned(OperandTexts(text)[3])
        bc == IF b.k = "num" /\ c.k = "num" THEN get_exponent_answer(b.v, c.v) ELSE Unmodelled
    IN  IF a.k = "num" /\ bc.k = "num" THEN get_exponent_answer(a.v, bc.v) ELSE Unmodelled

\* the outcome of the checks that precede the double-operator check
BeforeDoubleOp ==
    CheckAmbiguous(CheckBalanced(CheckLeadingTrailing(CheckCharacters(CheckBlank(
        [val |-> TRUE, expr |-> norm, errors |-> << >>, err |-> ""])))))

(***************************************************************************)
(* Claims.                                                                  *)
(***************************************************************************)

\* C1: once a line has been accepted, evaluate_expression never ends in an
\* unhandled exception (an index out of range in get_subexpression, float()
\* of an operand text that is no number in get_elements).
C1_EvaluationNeverFails == pc = "crashed" => calls = 0

\* C2: an accepted bracket-free expression of unsigned operands evaluates to
\* its value by precedence ('^' first, then '*' '/' '%' left to right, then
\* '+' '-' left to right), repeated operand-operator-operand texts included
\* (stated for at most one '^': the order among several is claim C3).
C2_Precedence ==
    (Finished /\ FlatUnsigned(accepted) /\ Count(accepted, "^", 0) <= 1
              /\ RefValue(accepted).k = "num")
        => (Returned /\ ParseFloat(result) = RefValue(accepted))

\* C3: an accepted chain a^b^c of non-negative integer literals evaluates to
\* a^(b^c), textually equal operands included.
C3_RightAssociative ==
    (Finished /\ ExponentChain(accepted) /\ RightAssociated(accepted).k = "num")
        => (Returned /\ ParseFloat(result) = RightAssociated(accepted))

\* C4: on a bracket-balanced input every bracket step of evaluate_expression
\* takes the first closing bracket of the string and the nearest opening
\* bracket before it, the text handed to calculate is the interior of that
\* pair and holds no bracket character; "15+(9*2+(8-4))+5" evaluates to 42.
C4_InnermostLeftmost ==
    /\ (pc = "calculate" /\ is_paren_exp /\ StackBalanced(accepted)) =>
          /\ 0 <= target_open /\ target_open < target_close /\ target_close < Len(expr)
          /\ expr[target_open + 1] \in Openers
          /\ expr[target_close + 1] \in Closers
          /\ \A j \in 1..target_close : expr[j] \notin Closers
          /\ \A j \in (target_open + 2)..target_close : expr[j] \notin Openers
          /\ calc_arg = SubSeq(expr, target_open + 2, target_close)
          /\ \A j \in 1..Len(calc_arg) : calc_arg[j] \notin BracketChars
    /\ (Returned /\ raw = << "1", "5", "+", "(", "9", "*", "2", "+", "(", "8", "-", "4", ")", ")", "+", "5" >>)
          => result = << "4", "2" >>

C4_Witness ==
    /\ pc = "calculate" /\ is_paren_exp /\ StackBalanced(accepted)
    /\ raw = << "1", "5", "+", "(", "9", "*", "2", "+", "(", "8", "-", "4", ")", ")", "+", "5" >>
    /\ calc_arg = << "8", "-", "4" >>

\* C5: evaluate_expression terminates on every accepted string: its recursion
\* never runs until the interpreter stops it (RecursionError).
C5_Terminates == pc = "crashed" => err # "RecursionError"

\* C6: a line that passes the non-empty, character-set and leading/trailing
\* operator checks and whose brackets (after the leading "-(-" rewrite) are
\* not balanced under stack matching is rejected with the bracket-mismatch
\* error.
C6_UnbalancedRejected ==
    (Validated /\ PassesFirstThree(norm) /\ ~ StackBalanced(Rewritten(norm)))
        => (pc = "rejected" /\ errors = << "UnbalancedBrackets" >>)

\* C7 as stated: every bracket-balanced line is rejected as ambiguous exactly
\* when a digit stands directly before an opening bracket or directly after a
\* closing bracket.
C7_AmbiguousExactly ==
    (Validated /\ StackBalanced(norm))
        => ((pc = "rejected" /\ errors = << "AmbiguousBrackets" >>) <=> DigitAdjacent(norm))

\* C7 amended: every bracket-balanced line that passes the non-empty,
\* character-set and leading/trailing-operator checks is rejected as ambiguous
\* exactly when a digit stands directly before an opening bracket or directly
\* after a closing bracket; "4*(5+2)" is accepted.
C7_AmbiguousAfterEarlierChecks ==
    /\ (Validated /\ StackBalanced(norm) /\ PassesFirstThree(norm))
          => ((pc = "rejected" /\ errors = << "AmbiguousBrackets" >>) <=> DigitAdjacent(norm))
    /\ (Validated /\ raw = << "4", "*", "(", "5", "+", "2", ")" >>) => pc # "rejected"

C7_Witness ==
    /\ pc = "rejected" /\ errors = << "AmbiguousBrackets" >>
    /\ raw = << "(", "5", "+", "2", ")", "4" >>

\* C8 as stated: a line of digits and operators that begins and ends with a
\* digit and has two adjacent operators whose second is not '-' (such as
\* "5++3") is rejected with DoubleOperator.
C8_DoubleOperatorRejected ==
    (/\ Validated
     /\ raw # << >>
     /\ \A i \in 1..Len(raw) : raw[i] \in Digits \cup OPERATORS
     /\ raw[1] \in Digits /\ raw[Len(raw)] \in Digits
     /\ BadPair(raw))
        => (pc = "rejected" /\ errors = << "DoubleOperator" >>)

\* C8 amended: normalize_unary collapses "++", "+-", "-+" and "--" before
\* validation, so "5++3" is accepted and evaluates to 8 and "5+-3" evaluates
\* to 2; a normalized line that passes the earlier checks is rejected with
\* DoubleOperator exactly when (after the validator's rewrite) it still has
\* two adjacent operators whose second is not '-'.
C8_DoubleOperatorAfterNormalize ==
    /\ (Validated /\ BeforeDoubleOp.err = "" /\ BeforeDoubleOp.val)
          => ((pc = "rejected" /\ errors = << "DoubleOperator" >>) <=> BadPair(BeforeDoubleOp.expr))
    /\ (Returned /\ raw = << "5", "+", "+", "3" >>) => result = << "8" >>
    /\ (Returned /\ raw = << "5", "+", "-", "3" >>) => result = << "2" >>
    /\ (Validated /\ raw \in {<< "5", "+", "+", "3" >>, << "5", "+", "-", "3" >>}) => pc # "rejected"

C8_Witness ==
    /\ pc = "rejected" /\ errors = << "DoubleOperator" >>
    /\ BadPair(norm) /\ norm = raw
    /\ norm[1] \in Digits /\ norm[Len(norm)] \in Digits

\* C9: a line holding "/0" or "%0" fails validation, and once a zero divisor
\* of '/' or '%' has been met during evaluation the result is "ERROR".
C9_ZeroDivisorRejected ==
    /\ (Validated /\ ContainsAny(norm, div_by_0)) => pc = "rejected"
    /\ (Finished /\ zero_div) => (Returned /\ result = ERROR)

\* C10: once an arithmetic error has occurred in any sub-expression,
\* evaluate_expression returns "ERROR": the run does not end in an exception
\* or in another result.
C10_AbortOnError ==
    (Finished /\ failed) => (Returned /\ result = ERROR)

\* C11: normalize_unary is idempotent: normalizing the normalized line again
\* gives the same string.
C11_NormalizeIdempotent ==
    pc \notin {"prompt", "entered"} => normalize_unary(norm) = norm

\* some number of the text has more than one decimal point
ManyDots(text) ==
    \E i, j \in 1..Len(text) :
        /\ i < j /\ text[i] = "." /\ text[j] = "."
        /\ \A k \in i..j : text[k] \in Digits \cup {"."}

\* the first check, in the documented order, that the text fails; << >> when
\* it fails none.  Brackets are judged by stack matching, on the string the
\* leading "-(-" rewrite leaves.
FirstFailure(text) ==
    LET Later(r) ==
            IF ~ StackBalanced(r) THEN << "UnbalancedBrackets" >>
            ELSE IF DigitAdjacent(r) THEN << "AmbiguousBrackets" >>
            ELSE IF BadPair(r) THEN << "DoubleOperator" >>
            ELSE IF ContainsAny(r, div_by_0) THEN << "LiteralDivideByZero" >>
            ELSE IF ManyDots(r) THEN << "MalformedNumber" >>
            ELSE << >>
    IN  IF text = << >> THEN << "EmptyInput" >>
        ELSE IF \E i \in 1..Len(text) : text[i] \notin valid THEN << "InvalidCharacter" >>
        ELSE IF ~ PassesFirstThree(text) THEN << "LeadingOrTrailingOperator" >>
        ELSE Later(Rewritten(text))

\* C12: is_valid_input reports exactly the first failing check of the order
\* non-empty, character set, leading/trailing operator, balance, ambiguity,
\* double operator, literal zero divisor, one dot per number, and accepts the
\* line when none fails.
C12_FirstFailureReported ==
    Validated => (~ (pc = "crashed" /\ calls = 0) /\ errors = FirstFailure(norm))

\* the same, for lines on which the leading "-(-" rewrite does not fire
C12_FirstFailureWithoutRewrite ==
    (Validated /\ Rewritten(norm) = norm /\ ~ (Len(norm) = 2 /\ norm[1] = "-" /\ norm[2] = "("))
        => (~ (pc = "crashed" /\ calls = 0) /\ errors = FirstFailure(norm))

\* is_valid_input has returned the line as valid
Accepted == Validated /\ calls >= 1

\* C13: a line returned as valid holds only digits, '.', operators and
\* brackets, ends with no operator, starts with no operator other than '-',
\* has no operator directly followed by an operator other than '-', and no
\* number with more than one '.'.
C13_AcceptedWellFormed ==
    Accepted =>
        /\ accepted # << >>
        /\ \A i \in 1..Len(accepted) : accepted[i] \in Digits \cup {"."} \cup OPERATORS \cup BracketChars
        /\ accepted[Len(accepted)] \notin OPERATORS
        /\ accepted[1] \notin OPERATORS \ {"-"}
        /\ ~ BadPair(accepted)
        /\ ~ ManyDots(accepted)

C13_Witness ==
    /\ pc = "evaluate" /\ calls = 1
    /\ raw = << "-", "(", "-", "5", "+", "3", ")" >>
    /\ accepted = << "(", "5", "+", "3", ")" >>

\* the text is "(-b)^e", alone or after "a" and one operator, with digit
\* strings a and b, b not zero, and e a literal that is not an integer
NegativeBaseFractionalExponent(text) ==
    \E i, j \in 1..Len(text) :
        /\ i + 2 < j /\ j + 1 < Len(text)
        /\ text[i] = "(" /\ text[i + 1] = "-" /\ text[j] = ")" /\ text[j + 1] = "^"
        /\ AllDigits(SubSeq(text, i + 2, j - 1))
        /\ ParseUnsigned(SubSeq(text, i + 2, j - 1)).k = "num"
        /\ ParseUnsigned(SubSeq(text, i + 2, j - 1)).v # 0
        /\ ParseUnsigned(SubSeq(text, j + 2, Len(text))).k = "num"
        /\ ParseUnsigned(SubSeq(text, j + 2, Len(text))).v % Scale # 0
        /\ \/ i = 1
           \/ i > 2 /\ AllDigits(SubSeq(text, 1, i - 2)) /\ text[i - 1] \in OPERATORS

\* C14: '^' with a negative base and an exponent that is not an integer ends
\* the evaluation with the error value, wherever the bracketed base stands.
C14_ComplexResultRejected ==
    (Finished /\ NegativeBaseFractionalExponent(accepted)) => (Returned /\ result = ERROR)

\* the text is "a^b" with unsigned literals a and b that are both zero
IsZeroPowerZero(text) ==
    /\ \A i \in 1..Len(text) : text[i] \in Digits \cup {".", "^"}
    /\ OperatorsOf(text) = << "^" >>
    /\ \A i \in 1..2 : ParseUnsigned(OperandTexts(text)[i]) = Num(0)

\* C15: 0^0 is 1: get_exponent_answer(0, 0) returns 1.0, a working string
\* that has become 0^0 is reduced to "1", and "0^0" and "(1-1)^(2-2)" give
\* the result "1".
C15_ZeroPowerZeroIsOne ==
    /\ get_exponent_answer(0, 0) = Num(Scale)
    /\ (pc = "calculate" /\ todo > 0 /\ IsZeroPowerZero(work))
          => (CalcIteration(work).outcome = "next" /\ CalcIteration(work).expr = << "1" >>)
    /\ (Finished /\ (IsZeroPowerZero(accepted)
                     \/ accepted = << "(", "1", "-", "1", ")", "^", "(", "2", "-", "2", ")" >>))
          => (Returned /\ result = << "1" >>)

C15_Witness ==
    /\ Returned /\ result = << "1" >>
    /\ raw = << "(", "1", "-", "1", ")", "^", "(", "2", "-", "2", ")" >>

\* C16: no state is kept between calls: the operator set is the one __init__
\* made, and a line typed again after other lines, accepted or rejected, is
\* answered as it was the first time (same verdict, same messages, same
\* result).
C16_Stateless ==
    /\ _OPERATORS = {"*", "/", "+", "-", "^", "%"}
    /\ (earlier # << >> /\ earlier[1].reads >= 1 /\ raw = earlier[1].raw
          /\ pc \in {"done", "rejected", "crashed", "unmodelled"})
       => (pc = earlier[1].pc /\ errors = earlier[1].errors /\ result = earlier[1].result)

C16_Witness ==
    /\ earlier # << >> /\ earlier[1].reads = 2
    /\ raw = earlier[1].raw /\ raw = << "1", "5", "+", "(", "9", "*", "2", ")" >>
    /\ pc = "done" /\ result = << "3", "3" >>

\* s with its first occurrence of old (which occurs in s) replaced by new
ReplaceFirst(s, old, new) ==
    Upto(s, Find(s, old, 0)) \o new \o From(s, Find(s, old, 0) + Len(old))

\* the working string after one reduction step that touches only the first
\* occurrence of the extracted sub-expression
FirstOccurrenceStep(text) ==
    LET Put(sub, el) ==
            ReplaceFirst(text, sub.sub_exp,
                         FormatNumber(do_the_math(el.first.v, el.second.v, el.operator).v))
        Get(pos, sub) == Put(sub, get_elements(text, sub.left, sub.right, pos))
        At(pos) == Get(pos, get_subexpression(text, pos))
    IN  At(which_operator(text))

\* C17: a reduction step of calculate replaces the first occurrence of the
\* extracted sub-expression by the computed value and leaves every other
\* character of the working string as it was.
C17_FirstOccurrenceOnly ==
    (pc = "calculate" /\ todo > 0 /\ CalcIteration(work).outcome = "next")
        => CalcIteration(work).expr = FirstOccurrenceStep(work)

\* C18: for an accepted line of unsigned numbers and operators, the loop of calculate always
\* finds an operator to apply while iterations remain, each iteration takes
\* exactly one binary operator out of the working string, and when the
\* iterations are used up the string is a single number.
C18_OneOperatorPerIteration ==
    (pc = "calculate" /\ ~ AnyIn(accepted, BracketChars) /\ FlatUnsigned(accepted)) =>
        /\ get_num_operators(work) = todo
        /\ todo > 0 => which_operator(work) # -1
        /\ todo = 0 => IsNumberText(work)

BracketCount(text) == Len(SelectSeq(text, LAMBDA c : c \in BracketChars))

\* C19: on a bracket-balanced line every recursive call of
\* evaluate_expression is given a balanced string with exactly two bracket
\* characters fewer than its caller had, so the depth of the recursion is at
\* most the number of bracket pairs plus one.
C19_TwoBracketsPerCall ==
    (calls >= 1 /\ StackBalanced(accepted)) =>
        /\ StackBalanced(expr)
        /\ BracketCount(expr) = BracketCount(accepted) - 2 * (calls - 1)
        /\ calls <= BracketCount(accepted) \div 2 + 1

C19_Witness ==
    /\ raw = << "1", "5", "+", "(", "9", "*", "2", "+", "(", "8", "-", "4", ")", ")", "+", "5" >>
    /\ calls = 3 /\ pc = "done"
    /\ expr = << "1", "5", "+", "2", "2", "+", "5" >>

\* the text is "-(-F)" with F unsigned numbers joined by '+' and '-'
DoubleNegativeBracket(text) ==
    /\ Len(text) >= 5
    /\ SubSeq(text, 1, 3) = << "-", "(", "-" >> /\ text[Len(text)] = ")"
    /\ \A i \in 4..(Len(text) - 1) : text[i] \in Digits \cup {".", "+", "-"}
    /\ FlatUnsigned(SubSeq(text, 4, Len(text) - 1))

\* the arithmetic value of "-(-F)": the first term of F as it stands, the
\* sign of every later term turned round
ValueOfDoubleNegative(text) ==
    RefValue([i \in 1..(Len(text) - 4) |->
                 IF text[i + 3] = "+" THEN "-" ELSE IF text[i + 3] = "-" THEN "+" ELSE text[i + 3]])

\* C20: the rewrite of a leading "-(-X...)" to "(X...)" keeps the value: a
\* line "-(-F)" evaluates to the arithmetic value of -(-F), also when F has
\* more than one term.
C20_RewriteKeepsValue ==
    (Finished /\ DoubleNegativeBracket(norm) /\ ValueOfDoubleNegative(norm).k = "num")
        => (Returned /\ ParseFloat(result) = ValueOfDoubleNegative(norm))

\* the patterns normalize_unary rewrites (lines 740-753)
SignCollisions ==
    {<< "*", "-", "(", "-" >>, << "/", "-", "(", "-" >>, << "+", "-", "(", "-" >>,
     << "-", "-", "(", "-" >>, << "^", "-", "-", "(" >>, << "-", "-" >>, << "+", "-" >>,
     << "-", "+" >>, << "+", "+" >>, << "^", "^" >>}

\* C21: the output of normalize_unary contains none of the sign-collision
\* patterns it rewrites ("*-(-", "/-(-", "+-(-", "--(-", "^--(", "--", "+-",
\* "-+", "++", "^^") and does not start with '+', for every input string.
C21_NoSignCollisionLeft ==
    pc \notin {"prompt", "entered"} =>
        /\ ~ ContainsAny(norm, SignCollisions)
        /\ ~ IsAt(norm, << "+" >>, 0)

Positions(text, chars) == {i \in 0..(Len(text) - 1) : PyAt(text, i) \in chars}
Lowest(S) == CHOOSE i \in S : \A j \in S : i <= j
Highest(S) == CHOOSE i \in S : \A j \in S : i >= j

\* the additive operators of text that are not a '-' at index 0
AdditivePositions(text) ==
    {i \in Positions(text, {"+", "-"}) : ~ (i = 0 /\ IsAt(text, << "-" >>, 0))}

\* the position the three tiers select, written from the positions of the
\* operators: rightmost '^', else leftmost of '*' '/' '%', else leftmost
\* additive operator, else -1
ChosenOperator(text) ==
    IF Positions(text, {"^"}) # {} THEN Highest(Positions(text, {"^"}))
    ELSE IF Positions(text, {"*", "/", "%"}) # {} THEN Lowest(Positions(text, {"*", "/", "%"}))
    ELSE IF AdditivePositions(text) # {} THEN Lowest(AdditivePositions(text))
    ELSE -1

\* C22: which_operator selects the rightmost '^' if the string has one,
\* otherwise the leftmost of '*', '/', '%', otherwise the leftmost '+' or '-'
\* that is not a '-' at index 0; a '-' at index 0 is never the position
\* returned, and -1 is returned only when the string has no operator other
\* than a leading '-'.  Stated for every working string of calculate.
C22_OperatorSelection ==
    pc = "calculate" =>
        /\ which_operator(work) = ChosenOperator(work)
        /\ ~ (which_operator(work) = 0 /\ IsAt(work, << "-" >>, 0))
        /\ which_operator(work) = -1 =>
               Positions(work, OPERATORS) \subseteq {i \in {0} : IsAt(work, << "-" >>, 0)}

\* the loop of calculate is about to select an operator in a string that
\* starts with '-' and has only additive operators
C22_Witness ==
    /\ pc = "calculate" /\ todo > 0
    /\ IsAt(work, << "-" >>, 0)
    /\ Positions(work, {"^", "*", "/", "%"}) = {}
    /\ which_operator(work) > 0
    /\ Cardinality(AdditivePositions(work)) >= 2

\* the bounds of the operand-operator-operand span around position p, written
\* from the positions of the operators
SpanLeft(text, p) ==
    LET before == {i \in Positions(text, OPERATORS) : i < p}
        after == IF before = {} THEN 0 ELSE Highest(before) + 1
    IN  IF after = 1 /\ IsAt(text, << "-" >>, 0) THEN 0 ELSE after

SpanRight(text, p) ==
    LET start == IF IsAt(text, << "-" >>, p + 1) THEN p + 2 ELSE p + 1
        later == {i \in Positions(text, OPERATORS) : i >= start}
    IN  IF later = {} THEN Len(text) ELSE Lowest(later)

\* C23: get_subexpression(expr, p) returns the minimal operand-operator-operand
\* span around p: left is the position after the nearest operator before p, or
\* 0 when there is none or when only a '-' at index 0 precedes the left
\* operand; right is the position of the first operator after p, skipping a
\* '-' directly after p, or the string length; the text returned is
\* expr[left:right].  Stated for every operator position calculate selects.
C23_SubexpressionBounds ==
    (pc = "calculate" /\ todo > 0 /\ which_operator(work) >= 0) =>
        /\ get_subexpression(work, which_operator(work)).err = ""
        /\ get_subexpression(work, which_operator(work)).left = SpanLeft(work, which_operator(work))
        /\ get_subexpression(work, which_operator(work)).right = SpanRight(work, which_operator(work))
        /\ get_subexpression(work, which_operator(work)).sub_exp =
               PySlice(work, SpanLeft(work, which_operator(work)),
                             SpanRight(work, which_operator(work)))

\* C23, the part that holds: whenever a character follows the operator, the
\* bounds returned are the ones described
C23_BoundsWhenOperandFollows ==
    (pc = "calculate" /\ todo > 0 /\ which_operator(work) >= 0
        /\ which_operator(work) + 1 < Len(work)) =>
        /\ get_subexpression(work, which_operator(work)).err = ""
        /\ get_subexpression(work, which_operator(work)).left = SpanLeft(work, which_operator(work))
        /\ get_subexpression(work, which_operator(work)).right = SpanRight(work, which_operator(work))

\* C24: the pre-pass of calculate removes only a "--" that stands at position
\* 0 and replaces every "--" elsewhere in the string with "+": a string that
\* starts with "--" is handed to the loop without its first two characters and
\* with each later "--" turned into "+" ("--5--3" becomes "5+3").
C24_PrePassLeadingOnly ==
    (pc = "calculate" /\ IsAt(calc_arg, << "-", "-" >>, 0)) =>
        PrePass(calc_arg).expr = Replace(From(calc_arg, 2), << "-", "-" >>, << "+" >>)

\* the text strip_odd_double_operators is given by the pre-pass (line 346)
StripInput(text) == Replace(text, << "-", "-" >>, << "+" >>)

\* text without each '+' that stands immediately after another operator
RECURSIVE WithoutStrayPlus(_, _)
WithoutStrayPlus(text, i) ==
    IF i >= Len(text) THEN << >>
    ELSE IF i > 0 /\ PyAt(text, i) = "+" /\ PyAt(text, i - 1) \in OPERATORS
    THEN WithoutStrayPlus(text, i + 1)
    ELSE << PyAt(text, i) >> \o WithoutStrayPlus(text, i + 1)

DigitsOf(text) == SelectSeq(text, LAMBDA c : c \in Digits)

\* C25: after the pre-pass has replaced "--" by "+", strip_odd_double_operators
\* removes every '+' that stands immediately after another operator and
\* nothing else: the result has no operator directly followed by '+' and
\* keeps every digit of its input, also when several such '+' occur.
C25_StripsOnlyStrayPlus ==
    (pc = "calculate" /\ Find(calc_arg, << "-", "-" >>, 0) > 0) =>
        /\ strip_odd_double_operators(StripInput(calc_arg)).err = ""
        /\ strip_odd_double_operators(StripInput(calc_arg)).expr =
               WithoutStrayPlus(StripInput(calc_arg), 0)
        /\ DigitsOf(strip_odd_double_operators(StripInput(calc_arg)).expr) =
               DigitsOf(StripInput(calc_arg))
        /\ \A i \in 1..(Len(strip_odd_double_operators(StripInput(calc_arg)).expr) - 1) :
               ~ (/\ PyAt(strip_odd_double_operators(StripInput(calc_arg)).expr, i) = "+"
                  /\ PyAt(strip_odd_double_operators(StripInput(calc_arg)).expr, i - 1) \in OPERATORS)

\* text with every bracket written as a round one
AsRound(text) ==
    [i \in 1..Len(text) |-> IF text[i] \in Openers THEN "(" ELSE IF text[i] \in Closers THEN ")"
                            ELSE text[i]]

\* b is a with matching bracket pairs replaced by pairs of another kind
SameUpToBracketKind(a, b) ==
    /\ a # b
    /\ AnyIn(a, Openers)
    /\ StackBalanced(a) /\ StackBalanced(b)
    /\ AsRound(a) = AsRound(b)

\* C26: the outcome does not depend on the bracket kind: a line and the same
\* line with matching pairs replaced by pairs of another kind get the same
\* verdict and, when accepted, the same result ("-(-5+3)" and "-[-5+3]").
C26_BracketKindIrrelevant ==
    (earlier # << >> /\ pc \in {"done", "rejected", "crashed"}
        /\ SameUpToBracketKind(earlier[1].raw, raw))
    => (pc = earlier[1].pc /\ result = earlier[1].result)

\* position (from 1) of the operator of a line "A op -(-F)": A an unsigned
\* integer literal, op one of '*', '/', '+', '-', F unsigned terms joined by
\* '+' and '-'; 0 when the line has another shape
SignedBracketAt(text) ==
    LET cand == {k \in 2..(Len(text) - 5) :
                    /\ AllDigits(SubSeq(text, 1, k - 1))
                    /\ text[k] \in {"*", "/", "+", "-"}
                    /\ DoubleNegativeBracket(SubSeq(text, k + 1, Len(text)))}
    IN  IF cand = {} THEN 0 ELSE CHOOSE k \in cand : TRUE

\* the arithmetic value of "A op -(-F)"
ValueWithSignedBracket(text) ==
    LET Apply(k, b) ==
            IF b.k # "num" THEN b
            ELSE do_the_math(ParseUnsigned(SubSeq(text, 1, k - 1)).v, b.v, text[k])
        At(k) == Apply(k, ValueOfDoubleNegative(SubSeq(text, k + 1, Len(text))))
    IN  At(SignedBracketAt(text))

\* C27: normalize_unary preserves the arithmetic value: a line "A op -(-F)",
\* whose "op-(-" is rewritten to "op(", evaluates to the value of A op -(-F),
\* also when F has more than one term ("2*-(-3+1)").
C27_NormalizeKeepsValue ==
    (Finished /\ SignedBracketAt(raw) > 0 /\ ValueWithSignedBracket(raw).k = "num")
        => (Returned /\ ParseFloat(result) = ValueWithSignedBracket(raw))

\* the bracketed region selected by the current call of evaluate_expression
\* has a digit or a '.' directly before its opening bracket or directly after
\* its closing bracket
RegionTouchesNumber ==
    \/ (target_open >= 1 /\ target_open <= Len(expr)
          /\ PyAt(expr, target_open - 1) \in Digits \cup {"."})
    \/ (target_close >= 0 /\ target_close + 1 < Len(expr)
          /\ PyAt(expr, target_close + 1) \in Digits \cup {"."})

\* C28: for every accepted input, the number text substituted for a bracketed
\* region is never placed directly next to a digit, a '.' or an earlier
\* substituted number: no substitution joins two operands into one literal.
\* Stated where calculate is about to return the number for the region.
C28_NoJoinedOperands ==
    (pc = "calculate" /\ is_paren_exp /\ todo = 0 /\ IsNumberText(work))
        => ~ RegionTouchesNumber

\* a line "A op (F)^E": A and E unsigned integer literals, op '+' or '-', F
\* unsigned integer terms joined by '+' and '-'.  The result is the record
\* of the positions of op, of the brackets and of '^', or [op |-> 0].
BracketPowerShape(text) ==
    LET cand == {q \in (1..Len(text)) \X (1..Len(text)) :
                    /\ q[1] >= 2 /\ q[1] + 1 < q[2] - 1 /\ q[2] + 2 <= Len(text)
                    /\ AllDigits(SubSeq(text, 1, q[1] - 1))
                    /\ text[q[1]] \in {"+", "-"}
                    /\ text[q[1] + 1] = "("
                    /\ text[q[2]] = ")"
                    /\ text[q[2] + 1] = "^"
                    /\ AllDigits(SubSeq(text, q[2] + 2, Len(text)))
                    /\ \A i \in (q[1] + 2)..(q[2] - 1) : text[i] \in Digits \cup {"+", "-"}
                    /\ FlatUnsigned(SubSeq(text, q[1] + 2, q[2] - 1))}
    IN  IF cand = {} THEN [op |-> 0, close |-> 0]
        ELSE (LET q == CHOOSE x \in cand : TRUE IN [op |-> q[1], close |-> q[2]])

\* the value of "A op (F)^E" with the bracket taken as one signed operand
ValueOfBracketPower(text) ==
    LET Outer(s, power) ==
            IF power.k # "num" THEN power
            ELSE do_the_math(ParseUnsigned(SubSeq(text, 1, s.op - 1)).v, power.v, text[s.op])
        Power(s, inner) ==
            IF inner.k # "num" THEN inner
            ELSE Outer(s, do_the_math(inner.v,
                                      ParseUnsigned(SubSeq(text, s.close + 2, Len(text))).v, "^"))
        Shape(s) == Power(s, RefValue(SubSeq(text, s.op + 2, s.close - 1)))
    IN  Shape(BracketPowerShape(text))

\* C29: a bracketed region is evaluated as a unit: the value of the region,
\* with its sign, is one operand of the surrounding operator; a line
\* "A op (F)^E" evaluates to A op ((F)^E), so "5+(1-3)^2" gives 9 and
\* "5-(1-3)^2" gives 1.
C29_BracketIsOneOperand ==
    (Finished /\ BracketPowerShape(accepted).op > 0 /\ ValueOfBracketPower(accepted).k = "num")
        => (Returned /\ ParseFloat(result) = ValueOfBracketPower(accepted))

\* a maximal run of digits and dots of text that holds no digit
DotOnlyRun(text) ==
    \E i \in 1..Len(text) :
        /\ text[i] = "."
        /\ \A j \in 1..Len(text) :
              (\A k \in Min(i, j)..Max(i, j) : text[k] \in Digits \cup {"."}) => text[j] = "."

\* C30: in every accepted string the interior of each bracket pair obeys the
\* operand rules of the whole expression: no operator other than '-' stands
\* directly after an opening bracket, no operator stands directly before a
\* closing bracket, and every maximal run of digits and dots holds a digit
\* ("(*5)", "(5+)" and "." are rejected).
C30_BracketInteriorWellFormed ==
    Accepted =>
        /\ \A i \in 1..(Len(accepted) - 1) :
              /\ ~ (accepted[i] \in Openers /\ accepted[i + 1] \in OPERATORS \ {"-"})
              /\ ~ (accepted[i] \in OPERATORS /\ accepted[i + 1] \in Closers)
        /\ ~ DotOnlyRun(accepted)

====
